---- MODULE Spec2Model ----
(***************************************************************************)
(* Model of the kedro-devops data-engineering nodes                        *)
(*   upper_caser(data)            nodes/upper_caser.py                     *)
(*   transform_uppercase(data_set) nodes/transform_uppercase.py            *)
(* Both end in data.applymap(lambda x: x.upper()).  Python values are      *)
(* tagged records; a call either returns a value or raises an exception,   *)
(* and the exception records the step of the node that raised it.          *)
(***************************************************************************)
EXTENDS Integers, Sequences, FiniteSets, TLC

VARIABLES heap, calls

vars == <<heap, calls>>

(* ---------------------------------------------------------------------- *)
(* Bounds                                                                   *)
(* ---------------------------------------------------------------------- *)

\* most rows of an input table, most records of a results list
MaxRows == 2

\* most calls of the two nodes in one run
MaxCalls == 2

(* ---------------------------------------------------------------------- *)
(* Python values                                                            *)
(* ---------------------------------------------------------------------- *)

\* a str: the sequence of its code points ("sz" stands for U+00DF)
PyStr(s) == [t |-> "str", s |-> s]

\* an int
PyInt(n) == [t |-> "int", n |-> n]

\* float('nan'), what pandas puts where a record has no value for a column
NaN == [t |-> "float"]

\* None, the value of json_data.get of a missing key and of a JSON null
None == [t |-> "null"]

\* a dict: its items in insertion order, each <<key, value>>
JDict(items) == [t |-> "dict", items |-> items]

\* a list
JList(elems) == [t |-> "list", elems |-> elems]

\* a pd.DataFrame: ordered column labels, rows in index order, each row a
\* function from column label to cell
DataFrame(columns, rows) == [kind |-> "DataFrame", columns |-> columns, rows |-> rows]

\* a requests.Response whose body decodes to `body` (NotJSON: it does not)
Response(body) == [kind |-> "Response", body |-> body]

NotJSON == [t |-> "notjson"]

\* an object that is neither a DataFrame nor a Response
OtherObject == [kind |-> "int", n |-> 1]

\* outcome of a call: a returned value, or a raised exception and the step
\* of the node that raised it
Return(v) == [kind |-> "return", val |-> v]

Raise(exc, at) == [kind |-> "raise", exc |-> exc, at |-> at]

Range(f) == {f[i] : i \in DOMAIN f}

\* sequences over S of length at most n
SeqsUpTo(S, n) == UNION {[1..k -> S] : k \in 0..n}

\* sequences over S without repetition
DistinctSeqs(S) == {q \in SeqsUpTo(S, Cardinality(S)) : Cardinality(Range(q)) = Len(q)}

(* ---------------------------------------------------------------------- *)
(* Inputs handed to the nodes                                               *)
(* ---------------------------------------------------------------------- *)

\* text cell values: lower case with a caseless code point, already upper
\* case, and a code point whose upper case is two code points
Texts == {<<"a", "1">>, <<"A", "1">>, <<"sz">>}

CellValues == {PyStr(s) : s \in Texts} \cup {PyInt(1)}

ColumnNames == {"names", "numbers"}

Tables ==
    UNION {{DataFrame(cs, rs) : rs \in SeqsUpTo([Range(cs) -> CellValues], MaxRows)} :
             cs \in DistinctSeqs(ColumnNames)}

FieldNames == {"data", "name"}

RecordValues == {PyStr(<<"a", "1">>), PyInt(1)}

\* flat records: field name to scalar, in the order the fields were inserted
Records ==
    {JDict(items) : items \in
        {q \in SeqsUpTo(FieldNames \X RecordValues, Cardinality(FieldNames)) :
            \A i, j \in DOMAIN q : i # j => q[i][1] # q[j][1]}}

\* values of the `results` field: null, a string, a number, one record that
\* is not wrapped in a list, and lists of flat records
ResultsValues ==
    {None, PyStr(<<"a", "1">>), PyInt(1)} \cup Records
        \cup {JList(rs) : rs \in SeqsUpTo(Records, MaxRows)}

\* decoded bodies: not JSON at all, a top-level list, a mapping without
\* `results`, a mapping with `results`
Bodies ==
    {NotJSON, JList(<<>>), JDict(<<>>)}
        \cup {JDict(<< <<"results", v>> >>) : v \in ResultsValues}

Payloads == {Response(b) : b \in Bodies}

Inputs == Tables \cup Payloads \cup {OtherObject}

(* ---------------------------------------------------------------------- *)
(* str.upper                                                                *)
(* ---------------------------------------------------------------------- *)

\* upper case of one code point; U+00DF maps to the two code points "SS"
UpperChar(c) ==
    CASE c = "a" -> <<"A">>
      [] c = "sz" -> <<"S", "S">>
      [] OTHER -> <<c>>

RECURSIVE upper(_)
upper(s) == IF s = <<>> THEN <<>> ELSE UpperChar(Head(s)) \o upper(Tail(s))

(* ---------------------------------------------------------------------- *)
(* The library calls the nodes make                                         *)
(* ---------------------------------------------------------------------- *)

\* lambda x: x.upper() : only a str has the method upper
Lambda(x) ==
    IF x.t = "str" THEN Return(PyStr(upper(x.s)))
    ELSE Raise("AttributeError", "upper")

\* cells of df in the order applymap visits them: column by column, and
\* within a column in index order; <<k, i>> is column k, row i
Visits(df) == {<<k, i>> : k \in DOMAIN df.columns, i \in DOMAIN df.rows}

Before(p, q) == p[1] < q[1] \/ (p[1] = q[1] /\ p[2] <= q[2])

\* df.applymap(lambda x: x.upper()): a frame with no rows or no columns is
\* copied without a call of the lambda; otherwise the lambda is called on
\* every cell, the first exception ends the call, and the values returned
\* make a new frame with the labels of df.  `self` is the receiver after the
\* call.
applymap(df) ==
    LET func(x) == Lambda(x)
        cell(p) == df.rows[p[2]][df.columns[p[1]]]
        bad == {p \in Visits(df) : func(cell(p)).kind = "raise"}
        first == CHOOSE p \in bad : \A q \in bad : Before(p, q)
        out ==
            IF Len(df.rows) = 0 \/ Len(df.columns) = 0 THEN Return(df)
            ELSE IF bad # {} THEN func(cell(first))
            ELSE Return(DataFrame(df.columns,
                    [i \in DOMAIN df.rows |->
                        [c \in Range(df.columns) |-> func(df.rows[i][c]).val]]))
    IN  [out |-> out, self |-> df]

\* variant: a body that does not decode is read as the empty mapping
json_lenient(data_set) ==
    [out |-> IF data_set.body = NotJSON THEN Return(JDict(<<>>))
             ELSE Return(data_set.body),
     self |-> data_set]

\* Response.json(): the decoded body, or the decoder's exception
json(data_set) ==
    [out |-> IF data_set.body = NotJSON THEN Raise("JSONDecodeError", "json")
             ELSE Return(data_set.body),
     self |-> data_set]

\* dict.get(key): the value of the key, None when the key is missing
get(d, key) ==
    IF \E i \in DOMAIN d.items : d.items[i][1] = key
    THEN d.items[CHOOSE i \in DOMAIN d.items : d.items[i][1] = key][2]
    ELSE None

\* the keys of a dict, in insertion order
Keys(d) == [i \in DOMAIN d.items |-> d.items[i][1]]

\* q followed by the elements of r that are not in q
RECURSIVE AppendNew(_, _)
AppendNew(q, r) ==
    IF r = <<>> THEN q
    ELSE AppendNew(IF Head(r) \in Range(q) THEN q ELSE Append(q, Head(r)), Tail(r))

\* union of the records' keys in first-seen order
RECURSIVE FirstSeen(_)
FirstSeen(rs) ==
    IF rs = <<>> THEN <<>>
    ELSE AppendNew(FirstSeen(SubSeq(rs, 1, Len(rs) - 1)), Keys(rs[Len(rs)]))

\* variant: a missing `results` is read as no records
json_normalize_lenient(data) ==
    IF data.t \notin {"dict", "list"} THEN Return(DataFrame(<<>>, <<>>))
    ELSE LET rs == IF data.t = "dict" THEN <<data>> ELSE data.elems
             cols == FirstSeen(rs)
         IN  Return(DataFrame(cols,
                 [i \in DOMAIN rs |->
                    [c \in Range(cols) |->
                        IF c \in Range(Keys(rs[i])) THEN get(rs[i], c) ELSE NaN]]))

\* pd.json_normalize(data): an empty list is the empty frame, a dict is a
\* list of one record, a list of flat records is one row per record with NaN
\* where the record lacks the column, anything else is refused
\* (NotImplementedError in pandas 1.3 and later; earlier releases fail in the
\* same call with a TypeError or AttributeError)
json_normalize(data) ==
    IF data.t = "list" /\ data.elems = <<>> THEN Return(DataFrame(<<>>, <<>>))
    ELSE IF data.t \notin {"dict", "list"}
         THEN Raise("NotImplementedError", "json_normalize")
    ELSE LET rs == IF data.t = "dict" THEN <<data>> ELSE data.elems
             cols == FirstSeen(rs)
         IN  Return(DataFrame(cols,
                 [i \in DOMAIN rs |->
                    [c \in Range(cols) |->
                        IF c \in Range(Keys(rs[i])) THEN get(rs[i], c) ELSE NaN]]))

(* ---------------------------------------------------------------------- *)
(* The nodes                                                                *)
(* ---------------------------------------------------------------------- *)

\* variant: the frame is upper-cased in place and handed back
upper_caser_inplace(data) ==
    IF data.kind # "DataFrame"
    THEN [out |-> Raise("AttributeError", "applymap"), self |-> data]
    ELSE LET r == applymap(data)
         IN  [out |-> r.out, self |-> IF r.out.kind = "return" THEN r.out.val ELSE data]

\* upper_caser(data): data.applymap(lambda x: x.upper())
upper_caser(data) ==
    IF data.kind # "DataFrame"
    THEN [out |-> Raise("AttributeError", "applymap"), self |-> data]
    ELSE applymap(data)

\* transform_uppercase(data_set): decode, take `results`, normalise to a
\* frame, upper-case it
transform_uppercase(data_set) ==
    IF data_set.kind # "Response"
    THEN [out |-> Raise("AttributeError", "json"), self |-> data_set]
    ELSE LET j == json(data_set)
             json_data == j.out.val
             pokemons == get(json_data, "results")
             data == json_normalize(pokemons)
         IN  [out |-> IF j.out.kind = "raise" THEN j.out
                      ELSE IF json_data.t # "dict" THEN Raise("AttributeError", "get")
                      ELSE IF data.kind = "raise" THEN data
                      ELSE applymap(data.val).out,
              self |-> j.self]

(* ---------------------------------------------------------------------- *)
(* A run: a collaborator hands over one object, then the nodes are called   *)
(* on it and on the frames earlier calls returned                           *)
(* ---------------------------------------------------------------------- *)

Init ==
    /\ heap \in {<<v>> : v \in Inputs}
    /\ calls = <<>>

\* one call of node `fn` on the object heap[id], with r what the node did:
\* the argument is left as the node left it, a returned frame is a new
\* object, and the call is logged with its argument as it was on entry and
\* the place of the returned frame (0: nothing was returned)
Call(fn, id, r) ==
    /\ Len(calls) < MaxCalls
    /\ heap' = IF r.out.kind = "return"
               THEN Append([heap EXCEPT ![id] = r.self], r.out.val)
               ELSE [heap EXCEPT ![id] = r.self]
    /\ calls' = Append(calls,
                [fn |-> fn, arg |-> id, input |-> heap[id], out |-> r.out,
                 ret |-> IF r.out.kind = "return" THEN Len(heap) + 1 ELSE 0])

CallUpperCaser == \E id \in DOMAIN heap : Call("upper_caser", id, upper_caser(heap[id]))

CallTransformUppercase ==
    \E id \in DOMAIN heap : Call("transform_uppercase", id, transform_uppercase(heap[id]))

Next == CallUpperCaser \/ CallTransformUppercase

Spec == Init /\ [][Next]_vars

(* ---------------------------------------------------------------------- *)
(* Vocabulary of the properties                                             *)
(* ---------------------------------------------------------------------- *)

Returned(c) == c.out.kind = "return"

RaisedAt(c, at) == c.out.kind = "raise" /\ c.out.at = at

\* the call is transform_uppercase on a payload that decodes to a mapping
DecodesToMapping(c) ==
    /\ c.fn = "transform_uppercase"
    /\ c.input.kind = "Response"
    /\ c.input.body.t = "dict"

\* the value of the payload's `results` field (None when there is none)
ResultsOf(c) == get(c.input.body, "results")

\* ... and its `results` is a sequence of flat records
HasRecords(c) == DecodesToMapping(c) /\ ResultsOf(c).t = "list"

\* the call transforms a table: upper_caser on a frame, or transform_uppercase
\* on a payload with records
HasTable(c) == (c.fn = "upper_caser" /\ c.input.kind = "DataFrame") \/ HasRecords(c)

\* the table the cell transform is applied to (after adaptation)
TableOf(c) ==
    IF c.fn = "upper_caser" THEN c.input ELSE json_normalize(ResultsOf(c)).val

\* the positions of a table
Positions(T) == (DOMAIN T.rows) \X Range(T.columns)

CellAt(T, p) == T.rows[p[1]][p[2]]

HasPosition(T, p) == p[1] \in DOMAIN T.rows /\ p[2] \in Range(T.columns)

\* a cell with its text, if it is text, upper-cased
Fold(x) == IF x.t = "str" THEN PyStr(upper(x.s)) ELSE x

AllUpper(T) == \A p \in Positions(T) : Fold(CellAt(T, p)) = CellAt(T, p)

\* the input is neither a table nor a payload that decodes
InvalidKind(c) ==
    \/ c.input.kind \notin {"DataFrame", "Response"}
    \/ c.input.kind = "Response" /\ c.input.body = NotJSON

(* ---------------------------------------------------------------------- *)
(* Properties                                                               *)
(* ---------------------------------------------------------------------- *)

\* C1: for every call on a table T (upper_caser on T, transform_uppercase on
\* the table its payload adapts to) and every text cell of T, the call
\* returns a table whose cell at the same row and column is the upper-cased
\* text.
C1_TextCellsUpperCased ==
    \A k \in DOMAIN calls :
        LET c == calls[k]
            T == TableOf(c)
        IN  HasTable(c) =>
                \A p \in Positions(T) :
                    CellAt(T, p).t = "str" =>
                        /\ Returned(c)
                        /\ HasPosition(c.out.val, p)
                        /\ CellAt(c.out.val, p) = PyStr(upper(CellAt(T, p).s))

\* C2: every call on a table T, mixed or not, returns a table, and every
\* cell of T that is not text is in the output at the same position with the
\* same type and value.
C2_NonTextCellsUnchanged ==
    \A k \in DOMAIN calls :
        LET c == calls[k]
            T == TableOf(c)
        IN  HasTable(c) =>
                /\ Returned(c)
                /\ \A p \in Positions(T) :
                        CellAt(T, p).t # "str" =>
                            HasPosition(c.out.val, p) /\ CellAt(c.out.val, p) = CellAt(T, p)

\* C3: transform_uppercase on a payload whose `results` is a sequence of flat
\* records returns a table with one row per record in the records' order,
\* the union of the field names in first-seen order as columns, and the
\* records' text values upper-cased.
C3_AdapterRowsAndColumns ==
    \A k \in DOMAIN calls :
        LET c == calls[k]
            rs == ResultsOf(c).elems
        IN  HasRecords(c) =>
                /\ Returned(c)
                /\ Len(c.out.val.rows) = Len(rs)
                /\ c.out.val.columns = FirstSeen(rs)
                /\ \A i \in DOMAIN rs : \A j \in DOMAIN rs[i].items :
                        rs[i].items[j][2].t = "str" =>
                            c.out.val.rows[i][rs[i].items[j][1]]
                                = PyStr(upper(rs[i].items[j][2].s))

\* C4: transform_uppercase on a payload whose records do not all have the
\* same fields returns a table in which a row holds the absent value in every
\* column its record lacks, and the upper-cased text where its record has
\* text.
C4_MissingFieldsAbsent ==
    \A k \in DOMAIN calls :
        LET c == calls[k]
            rs == ResultsOf(c).elems
            fields(i) == Range(Keys(rs[i]))
        IN  (HasRecords(c) /\ \E i, j \in DOMAIN rs : fields(i) # fields(j)) =>
                /\ Returned(c)
                /\ \A i \in DOMAIN rs : \A col \in Range(c.out.val.columns) :
                        IF col \notin fields(i) THEN c.out.val.rows[i][col] = NaN
                        ELSE c.out.val.rows[i][col] = Fold(get(rs[i], col))

\* C5 as stated: transform_uppercase on a payload that decodes to a mapping
\* without a `results` field, or with a `results` that is not a sequence of
\* flat records, fails with a MalformedPayload error.
C5_MalformedPayloadError ==
    \A k \in DOMAIN calls :
        LET c == calls[k]
        IN  (DecodesToMapping(c) /\ ~HasRecords(c)) =>
                c.out.kind = "raise" /\ c.out.exc = "MalformedPayload"

\* C5 as amended: on a payload that decodes to a mapping whose `results` is
\* missing, null, a string or a number, transform_uppercase fails in the
\* normalisation step (pd.json_normalize refuses the value) and returns no
\* table; a `results` that is one flat record, not a sequence, is not
\* refused: it is normalised as a sequence of that one record.
C5_NormaliserRefusesResults ==
    \A k \in DOMAIN calls :
        LET c == calls[k]
            v == ResultsOf(c)
        IN  (DecodesToMapping(c) /\ ~HasRecords(c)) =>
                IF v.t = "dict"
                THEN /\ ~RaisedAt(c, "json_normalize")
                     /\ Returned(c) =>
                            Len(c.out.val.rows) = 1 /\ c.out.val.columns = Keys(v)
                ELSE RaisedAt(c, "json_normalize") /\ c.ret = 0

\* C5 witness: a call on a payload that decoded to the empty mapping failed
\* in the normalisation step.
C5_Witness ==
    \E k \in DOMAIN calls :
        /\ DecodesToMapping(calls[k])
        /\ calls[k].input.body = JDict(<<>>)
        /\ RaisedAt(calls[k], "json_normalize")

\* C6 as stated: a call whose input is neither a table nor a decodable
\* payload fails with an InvalidInputKind error.
C6_InvalidInputKindError ==
    \A k \in DOMAIN calls :
        LET c == calls[k]
        IN  InvalidKind(c) => c.out.kind = "raise" /\ c.out.exc = "InvalidInputKind"

\* C6 as amended: upper_caser takes a table and transform_uppercase a
\* payload, and neither refuses its own kind of input for its kind; an input
\* that is neither a table nor a decodable payload makes the call fail, with
\* the AttributeError of the missing applymap or json method or with the
\* decoder's error, and no table is returned.
C6_WrongKindRaises ==
    \A k \in DOMAIN calls :
        LET c == calls[k]
        IN  /\ (c.fn = "upper_caser" /\ c.input.kind = "DataFrame") =>
                    ~RaisedAt(c, "applymap")
            /\ (c.fn = "transform_uppercase" /\ ~InvalidKind(c)
                    /\ c.input.kind = "Response") => ~RaisedAt(c, "json")
            /\ InvalidKind(c) =>
                    /\ c.ret = 0
                    /\ c.out =
                         IF c.fn = "upper_caser" THEN Raise("AttributeError", "applymap")
                         ELSE IF c.input.kind = "Response"
                              THEN Raise("JSONDecodeError", "json")
                              ELSE Raise("AttributeError", "json")

\* C6 witness: both nodes were called on an object that is neither a frame
\* nor a response (or on a payload that does not decode), and both raised.
C6_Witness ==
    /\ Len(calls) = 2
    /\ calls[1].fn # calls[2].fn
    /\ InvalidKind(calls[1]) /\ InvalidKind(calls[2])
    /\ calls[1].out.kind = "raise" /\ calls[2].out.kind = "raise"

\* C7: every call on a table T returns a table with the column names, the
\* column order, the row count and the row order of T.
C7_SameShape ==
    \A k \in DOMAIN calls :
        LET c == calls[k]
            T == TableOf(c)
        IN  HasTable(c) =>
                /\ Returned(c)
                /\ c.out.val.columns = T.columns
                /\ Len(c.out.val.rows) = Len(T.rows)
                /\ \A p \in Positions(T) : Fold(CellAt(c.out.val, p)) = Fold(CellAt(T, p))

\* C8: for every table T whose text cells are already upper-cased the
\* transform returns a table, and the transform of a table that the
\* transform returned is that table again.
C8_Idempotent ==
    /\ \A k \in DOMAIN calls :
            LET c == calls[k]
            IN  (c.fn = "upper_caser" /\ c.input.kind = "DataFrame" /\ AllUpper(c.input))
                    => Returned(c)
    /\ \A k, m \in DOMAIN calls :
            (calls[m].fn = "upper_caser" /\ Returned(calls[k]) /\ calls[m].arg = calls[k].ret)
                => calls[m].out = calls[k].out

\* C9: a call, whether it returns or raises, leaves every object that
\* existed before it as it was (its argument included), and writes nothing
\* later calls read: two calls of the same node on equal inputs have the
\* same outcome, whatever ran in between.
C9_CallsArePure ==
    [][/\ \A i \in DOMAIN heap : i \in DOMAIN heap' /\ heap'[i] = heap[i]
       /\ \A k, m \in DOMAIN calls' :
            (calls'[k].fn = calls'[m].fn /\ calls'[k].input = calls'[m].input)
                => calls'[k].out = calls'[m].out]_vars

\* C9 witness: a node was called twice on the same object; the first call
\* returned a table that differs from its argument, and the argument is
\* still what it was.
C9_Witness ==
    /\ Len(calls) = 2
    /\ calls[1].fn = calls[2].fn
    /\ calls[1].arg = calls[2].arg
    /\ Returned(calls[1])
    /\ calls[1].out.val # calls[1].input
    /\ heap[calls[1].arg] = calls[1].input

\* C10: the output cell at a position depends only on the input cell at that
\* position: any two calls on tables that hold the same cell at a position
\* both return a table, and the two outputs hold the same cell there.
C10_ElementWise ==
    \A k, m \in DOMAIN calls :
        LET c1 == calls[k]
            c2 == calls[m]
            T1 == TableOf(c1)
            T2 == TableOf(c2)
        IN  (HasTable(c1) /\ HasTable(c2)) =>
                \A p \in Positions(T1) :
                    (HasPosition(T2, p) /\ CellAt(T1, p) = CellAt(T2, p)) =>
                        /\ Returned(c1) /\ Returned(c2)
                        /\ CellAt(c1.out.val, p) = CellAt(c2.out.val, p)

====
